---- MODULE Spec2Model ----
(***************************************************************************)
(* A model of trivup's KafkaBrokerApp (src/trivup/apps/KafkaBrokerApp.py): *)
(* the constructor, which turns the conf dict into ports, listener         *)
(* strings, a JAAS file, rendered config files, launcher environment and   *)
(* a start command; deploy(), which rewrites the start command; and        *)
(* operational(), the reachability probe.                                  *)
(*                                                                         *)
(* Python values: a str is a TLA+ string (Len, \o, SubSeq, Head and Tail   *)
(* act on its characters), an int is an integer, a list is a sequence, a   *)
(* dict is a function on its keys, and None is the marker None below.      *)
(***************************************************************************)
EXTENDS Integers, Sequences, FiniteSets, TLC

(* ------------------------------ bounds -------------------------------- *)

\* Most fields in a 'listeners' CSV handed to the constructor.
MaxFields == 2
\* Most fields in a 'sasl_mechanisms' CSV handed to the constructor.
MaxMechs == 2
\* Most fields in a 'sasl_users' CSV handed to the constructor.
MaxUsers == 2

(* ------------------------ Python's primitives ------------------------- *)

\* Python's None; no str of the model is equal to it.
None == "<None>"

\* '%s' % v
PyStr(v) == IF v = None THEN "None" ELSE v

\* The printable ASCII characters in code-point order: ' ' (32) to '_' (95), and
\* 'a' (97) to '~' (126); a TLA+ string cannot hold '`' (96).
AsciiLow == " !\"#$%&'()*+,-./0123456789:;<=>?@ABCDEFGHIJKLMNOPQRSTUVWXYZ[\\]^_"
AsciiHigh == "abcdefghijklmnopqrstuvwxyz{|}~"

\* ord(c) of a one-character str.
Ord(c) ==
  IF \E i \in 1..Len(AsciiLow) : SubSeq(AsciiLow, i, i) = c
  THEN 31 + (CHOOSE i \in 1..Len(AsciiLow) : SubSeq(AsciiLow, i, i) = c)
  ELSE 96 + (CHOOSE i \in 1..Len(AsciiHigh) : SubSeq(AsciiHigh, i, i) = c)

\* s[i:] with a 1-based i.
From(s, i) == SubSeq(s, i, Len(s))

\* str.find(c, i) with 1-based positions; 0 when c does not occur from i on.
RECURSIVE IndexOf(_, _, _)
IndexOf(s, c, i) ==
  IF i > Len(s) THEN 0
  ELSE IF SubSeq(s, i, i) = c THEN i
  ELSE IndexOf(s, c, i + 1)

\* s.split(sep) for a one-character sep: ''.split(',') is [''].
RECURSIVE Split(_, _)
Split(s, sep) ==
  LET i == IndexOf(s, sep, 1)
  IN  IF i = 0 THEN <<s>>
      ELSE <<SubSeq(s, 1, i - 1)>> \o Split(From(s, i + 1), sep)

\* s.replace(c, '') for a one-character c.
RECURSIVE Remove(_, _)
Remove(s, c) ==
  IF Len(s) = 0 THEN ""
  ELSE IF Head(s) = c THEN Remove(Tail(s), c)
  ELSE Head(s) \o Remove(Tail(s), c)

\* sep.join(xs)
RECURSIVE Join(_, _)
Join(sep, xs) ==
  IF Len(xs) = 0 THEN ""
  ELSE IF Len(xs) = 1 THEN xs[1]
  ELSE xs[1] \o sep \o Join(sep, Tail(xs))

\* a < b on str: by code point, a proper prefix first.
RECURSIVE StrLess(_, _)
StrLess(a, b) ==
  IF Len(b) = 0 THEN FALSE
  ELSE IF Len(a) = 0 THEN TRUE
  ELSE IF Head(a) = Head(b) THEN StrLess(Tail(a), Tail(b))
  ELSE Ord(Head(a)) < Ord(Head(b))

\* set(xs) of a list.
ToSet(xs) == {xs[i] : i \in 1..Len(xs)}

\* sorted(S) of a set of str.
RECURSIVE Sorted(_)
Sorted(S) ==
  IF S = {} THEN <<>>
  ELSE LET m == CHOOSE x \in S : \A y \in S \ {x} : StrLess(x, y)
       IN  <<m>> \o Sorted(S \ {m})

\* '%d' % n for n >= 0.
Digits == "0123456789"
RECURSIVE IntToStr(_)
IntToStr(n) ==
  IF n < 10 THEN SubSeq(Digits, n + 1, n + 1)
  ELSE IntToStr(n \div 10) \o SubSeq(Digits, (n % 10) + 1, (n % 10) + 1)

\* os.path.join(a, b): an absolute b replaces a; else one '/' between them.
PathJoin(a, b) ==
  IF Len(b) > 0 /\ Head(b) = "/" THEN b
  ELSE IF Len(a) = 0 \/ SubSeq(a, Len(a), Len(a)) = "/" THEN a \o b
  ELSE a \o "/" \o b

\* d.get(k, default)
Get(d, k, default) == IF k \in DOMAIN d THEN d[k] ELSE default

\* d[k] = v on a dict, adding the key when it is new.
Put(d, k, v) == [x \in DOMAIN d \cup {k} |-> IF x = k THEN v ELSE d[x]]

(* -------------------- what the constructor is given ------------------- *)

VARIABLES
  arg_conf,        \* the conf dict passed to __init__, as the caller wrote it
  arg_kafka_path,  \* the kafka_path argument of __init__ (None when not given)
  apps,            \* the cluster registry: the type names find_app() can resolve
  st,              \* lifecycle: "Unconfigured", "Failed", "Configured", "Deployed"
  conf,            \* self.conf
  ports,           \* the list 'ports' of __init__: <<protocol name, port>> pairs
  allocated,       \* the ports TcpPortAllocator.next() has returned, in call order
  env,             \* env_add(name, value) calls, in call order
  files,           \* files created by create_file / create_file_from_template
  dirs,            \* directories created by create_dir
  log,             \* lines written with self.log
  principals,      \* credentials the KerberosKdcApp has issued
  outcome          \* the last call: its name, the exception it raised, its result,
                   \* the command it gave os.system() and the wait status returned

vars ==
  <<arg_conf, arg_kafka_path, apps, st, conf, ports, allocated, env, files, dirs,
    log, principals, outcome>>

(* ------------- collaborators outside KafkaBrokerApp.py ---------------- *)

\* self.node.name
NodeName == "localhost"

\* trivup.App.__init__: self.conf is the conf given, with the node's name in it.
BaseInit(c) == Put(c, "nodename", NodeName)

\* cluster.find_app(t): whether an app of that type is registered.
FindApp(t) == t \in apps

\* The ports TcpPortAllocator.next() may return: any port it has not returned yet.
PortPool == {9091 + i : i \in 1..(MaxFields + 1)}

\* All the ways n successive next() calls can come out; __init__ makes as many of
\* these calls as it gets to.
PortChoices(n) ==
  {a \in [1..n -> PortPool \ ToSet(allocated)] :
     \A i, j \in 1..n : i # j => a[i] # a[j]}

\* The root directory of this app instance, and create_file's returned path.
AppRoot == "/cluster/KafkaBrokerApp/1"
AppPath(name) == AppRoot \o "/" \o name

\* cluster.mkpath(name)
MkPath(name) == "/cluster/" \o name

\* self.resource_path(name)
ResourcePath(name) == "/trivup/apps/KafkaBrokerApp/" \o name

\* ZookeeperApp.get('address', None)
ZkAddress == "localhost:2181"

\* KerberosKdcApp.conf['krb5_conf']
Krb5Conf == "/cluster/KerberosKdcApp/1/krb5.conf"

\* KerberosKdcApp.add_principal(service, host): (principal, keytab path).
AddPrincipal(service, host) ==
  [principal |-> service \o "/" \o host \o "@REALM",
   keytab |-> "/cluster/KerberosKdcApp/1/keytabs/" \o service \o "." \o host]

\* create_file(name, data=...)
PlainFile(data) == [template |-> None, subst |-> FALSE, data |-> data]

\* create_file_from_template(name, conf, append_data=..., subst=...)
TemplateFile(template, subst, append_data) ==
  [template |-> template, subst |-> subst, data |-> append_data]

(* --------------------- KafkaBrokerApp.__init__ ------------------------ *)

Contains(xs, x) == \E i \in 1..Len(xs) : xs[i] = x

NonEmpty(x) == Len(x) > 0

\* The version after 'master' is renamed to 'trunk'.
Version(c) == IF c["version"] = "master" THEN "trunk" ELSE c["version"]

\* The listener names the caller asked for.
RequestedListeners(c) == Split(Get(c, "listeners", "PLAINTEXT"), ",")

\* The SASL mechanisms the caller asked for: spaces removed, empty fields dropped.
SaslMechs(c) ==
  SelectSeq(Split(Remove(Get(c, "sasl_mechanisms", ""), " "), ","), NonEmpty)

\* The list 'listeners' once the SASL listener is appended.
Listeners(c) ==
  IF Len(SaslMechs(c)) > 0
  THEN Append(RequestedListeners(c), "SASL_PLAINTEXT")
  ELSE RequestedListeners(c)

\* xs without its repeated elements, in the order of first occurrence.
RECURSIVE Dedup(_)
Dedup(xs) ==
  IF Len(xs) = 0 THEN <<>>
  ELSE LET r == Dedup(SubSeq(xs, 1, Len(xs) - 1))
       IN  IF Contains(r, xs[Len(xs)]) THEN r ELSE Append(r, xs[Len(xs)])

\* Mutant: the listeners deduplicated but left in the order requested.
ListenerOrderUnsorted(c) == Dedup(Listeners(c))

\* The order in which listeners are given their ports.
ListenerOrder(c) == Sorted(ToSet(Listeners(c)))

\* ports = [(x, next()) for x in sorted(set(listeners))], alloc[i] the i-th next().
BindPorts(names, alloc) == [i \in 1..Len(names) |-> <<names[i], alloc[i]>>]

\* Mutant: the default port taken from the last listener.
DefaultPortLast(pp) == pp[Len(pp)][2]

\* The "default" port.
DefaultPort(pp) == pp[1][2]

\* '%s://%s:%d' % (x[0], self.node.name, x[1])
ListenerUrl(x) == x[1] \o "://" \o NodeName \o ":" \o IntToStr(x[2])

ListenersConf(pp) == Join(",", [i \in 1..Len(pp) |-> ListenerUrl(pp[i])])

\* Lines 37-62: version, listeners, ports and addresses.
ListenerStage(s, alloc) ==
  LET pp == BindPorts(ListenerOrder(s.conf), alloc)
      c1 == Put(s.conf, "version", Version(s.conf))
      c2 == Put(c1, "port", DefaultPort(pp))
      c3 == Put(c2, "address", c2["nodename"] \o ":" \o IntToStr(c2["port"]))
      c4 == Put(c3, "listeners", ListenersConf(pp))
      c5 == Put(c4, "advertised.listeners", c4["listeners"])
      c6 == Put(c5, "kafka_path", arg_kafka_path)
  IN  [s EXCEPT !.conf = c6, !.ports = pp,
                !.allocated = s.allocated \o [i \in 1..Len(pp) |-> alloc[i]]]

\* True when every 'u,p = up.split("=")' of the sasl_users loop unpacks.
UsersUnpack(sasl_users) ==
  LET ups == Split(sasl_users, ",")
  IN  \A i \in 1..Len(ups) : Len(Split(ups[i], "=")) = 2

\* 'user_%s="%s"' % (u, p)
UserLine(up) ==
  LET f == Split(up, "=") IN "user_" \o f[1] \o "=\"" \o f[2] \o "\""

\* Mutant: every user line ends with ';'.
PlainLinesSemiEach(sasl_users) ==
  LET ups == Split(sasl_users, ",")
  IN  <<"org.apache.kafka.common.security.plain.PlainLoginModule required debug=true">>
      \o [i \in 1..Len(ups) |-> UserLine(ups[i]) \o ";"]

\* The PLAIN stanza: the login module, one line per user, ';' on the last line.
PlainLines(sasl_users) ==
  LET ups == Split(sasl_users, ",")
  IN  <<"org.apache.kafka.common.security.plain.PlainLoginModule required debug=true">>
      \o [i \in 1..Len(ups) |->
            IF i = Len(ups) THEN UserLine(ups[i]) \o ";" ELSE UserLine(ups[i])]

\* The GSSAPI stanza.
KrbLines(cred) ==
  <<"com.sun.security.auth.module.Krb5LoginModule required",
    "useKeyTab=true storeKey=true doNotPrompt=true",
    "keyTab=\"" \o cred.keytab \o "\"",
    "debug=true",
    "principal=\"" \o cred.principal \o "\";">>

\* Mutant: the PLAIN login module is named even when there are no users.
JaasBlobPlainAlways(mechs, sasl_users, cred) ==
  <<"KafkaServer {">>
  \o (IF Contains(mechs, "PLAIN")
      THEN IF Len(sasl_users) > 0 THEN PlainLines(sasl_users)
           ELSE <<"org.apache.kafka.common.security.plain.PlainLoginModule required debug=true;">>
      ELSE <<>>)
  \o (IF Contains(mechs, "GSSAPI") THEN KrbLines(cred) ELSE <<>>)
  \o <<"};\n">>

\* Mutant: the Kerberos stanza is written before the PLAIN stanza.
JaasBlobKrbFirst(mechs, sasl_users, cred) ==
  <<"KafkaServer {">>
  \o (IF Contains(mechs, "GSSAPI") THEN KrbLines(cred) ELSE <<>>)
  \o (IF Contains(mechs, "PLAIN") /\ Len(sasl_users) > 0
      THEN PlainLines(sasl_users) ELSE <<>>)
  \o <<"};\n">>

\* jaas_blob when it is written to jaas_broker.conf.
JaasBlob(mechs, sasl_users, cred) ==
  <<"KafkaServer {">>
  \o (IF Contains(mechs, "PLAIN") /\ Len(sasl_users) > 0
      THEN PlainLines(sasl_users) ELSE <<>>)
  \o (IF Contains(mechs, "GSSAPI") THEN KrbLines(cred) ELSE <<>>)
  \o <<"};\n">>

\* conf_blob after the SASL section.
ConfBlob(mechs) ==
  <<"sasl.enabled.mechanisms=" \o Join(",", mechs)>>
  \o (IF Contains(mechs, "GSSAPI")
      THEN <<"sasl.kerberos.service.name=" \o "kafka">> ELSE <<>>)

NoUsersWarning ==
  "WARNING: No sasl_users configured for PLAIN, expected CSV of user=pass,.."

\* The environment the GSSAPI section adds.
KrbEnv ==
  <<<<"KRB5_CONFIG", Krb5Conf>>,
    <<"KAFKA_OPTS", "-Djava.security.krb5.conf=" \o Krb5Conf>>,
    <<"KAFKA_OPTS", "-Dsun.security.krb5.debug=true">>>>

\* The environment added once the JAAS file is written.
JaasEnv(jaas_file) ==
  <<<<"KAFKA_OPTS", "-Djava.security.auth.login.config=" \o jaas_file>>,
    <<"KAFKA_OPTS", "-Djava.security.debug=all">>>>

\* Mutant: a missing KerberosKdcApp is passed over.
KdcMissingIgnored(mechs) == FALSE

\* kdc is None where 'kdc.conf' is read for GSSAPI: an AttributeError.
KdcMissing(mechs) == Contains(mechs, "GSSAPI") /\ ~FindApp("KerberosKdcApp")

\* Lines 64-96: the SASL section.
SaslStage(s) ==
  LET mechs  == SaslMechs(s.conf)
      users  == Get(s.conf, "sasl_users", "")
      plain  == Contains(mechs, "PLAIN")
      gssapi == Contains(mechs, "GSSAPI")
      s1     == IF plain /\ Len(users) = 0
                THEN [s EXCEPT !.log = Append(@, NoUsersWarning)] ELSE s
      cred   == AddPrincipal("kafka", NodeName)
      s2     == IF gssapi
                THEN [s1 EXCEPT !.env = @ \o KrbEnv, !.principals = @ \cup {cred}]
                ELSE s1
      data   == Join("\n", JaasBlob(mechs, users, cred))
      path   == AppPath("jaas_broker.conf")
  IN  IF Len(mechs) = 0 THEN s
      ELSE IF plain /\ Len(users) > 0 /\ ~UsersUnpack(users)
      THEN [s EXCEPT !.raised = "ValueError"]
      ELSE IF KdcMissing(mechs)
      THEN [s1 EXCEPT !.raised = "AttributeError"]
      ELSE [s2 EXCEPT !.files = Put(@, "jaas_broker.conf", PlainFile(data)),
                      !.conf = Put(@, "jaas_file", path),
                      !.env = @ \o JaasEnv(path),
                      !.conf_blob = ConfBlob(mechs)]

\* The command line of the no-deploy start command.
StartCmd(kafka_path, conf_file) ==
  LET start_sh == IF kafka_path # None /\ Len(kafka_path) > 0
                  THEN PathJoin(PathJoin(kafka_path, "bin"), "kafka-server-start.sh")
                  ELSE "kafka-server-start.sh"
  IN  start_sh \o " " \o conf_file

\* Lines 99-124: defaults, the rendered files and the process descriptor.
FinalStage(s) ==
  LET c1 == Put(s.conf, "log_dirs", AppPath("logs"))
      c2 == IF "num_partitions" \in DOMAIN c1 THEN c1 ELSE Put(c1, "num_partitions", 3)
      c3 == Put(c2, "zk_connect", ZkAddress)
      c4 == IF "replication_factor" \in DOMAIN c3 THEN c3
            ELSE Put(c3, "replication_factor", 1)
      c5 == Put(c4, "conf_file", AppPath("server.properties"))
      f1 == Put(s.files, "server.properties",
                TemplateFile("server.properties", TRUE, Join("\n", s.conf_blob)))
      c6 == Put(c5, "log4j_file", AppPath("log4j.properties"))
      f2 == Put(f1, "log4j.properties", TemplateFile("log4j.properties", FALSE, ""))
      c7 == Put(c6, "start_cmd", StartCmd(arg_kafka_path, c6["conf_file"]))
      c8 == Put(c7, "stop_cmd", None)
  IN  [s EXCEPT !.conf = c8, !.files = f2,
                !.dirs = @ \cup {AppPath("logs")},
                !.env = Append(@, <<"KAFKA_LOG4J_OPTS",
                                    "-Dlog4j.configuration=file:" \o c6["log4j_file"]>>)]

\* Mutant: the ZookeeperApp is not checked for, and is missed only where its
\* address is read.
InitBodyLateZkCheck(s, alloc) ==
  IF "version" \notin DOMAIN s.conf THEN [s EXCEPT !.raised = "KeyError"]
  ELSE LET s2 == SaslStage(ListenerStage(s, alloc))
       IN  IF s2.raised # None THEN s2
           ELSE IF ~FindApp("ZookeeperApp") THEN [s2 EXCEPT !.raised = "AttributeError"]
           ELSE FinalStage(s2)

\* The whole constructor, from the state s after trivup.App.__init__.
InitBody(s, alloc) ==
  IF ~FindApp("ZookeeperApp") THEN [s EXCEPT !.raised = "Exception"]
  ELSE IF "version" \notin DOMAIN s.conf THEN [s EXCEPT !.raised = "KeyError"]
  ELSE LET s2 == SaslStage(ListenerStage(s, alloc))
       IN  IF s2.raised # None THEN s2 ELSE FinalStage(s2)

EmptyDict == [k \in {} |-> None]

Construct ==
  /\ st = "Unconfigured"
  /\ LET c0 == BaseInit(arg_conf)
         s0 == [conf |-> c0, ports |-> <<>>, allocated |-> allocated, env |-> env,
                files |-> files, dirs |-> dirs, log |-> log,
                principals |-> principals, conf_blob |-> <<>>, raised |-> None]
     IN  \E alloc \in PortChoices(Len(ListenerOrder(c0))) :
           LET r == InitBody(s0, alloc)
           IN  /\ conf' = r.conf
               /\ ports' = r.ports
               /\ allocated' = r.allocated
               /\ env' = r.env
               /\ files' = r.files
               /\ dirs' = r.dirs
               /\ log' = r.log
               /\ principals' = r.principals
               /\ st' = IF r.raised = None THEN "Configured" ELSE "Failed"
               /\ outcome' = [call |-> "__init__", raised |-> r.raised,
                              ret |-> None, cmd |-> None, status |-> 0]
  /\ UNCHANGED <<arg_conf, arg_kafka_path, apps>>

(* ------------------ operational() and deploy() ------------------------ *)

\* What os.system() may return: the wait status of exit code 0 or 1.
WaitStatuses == {0, 256}

\* The probe's shell command.
ProbeCmd(c) ==
  "(echo anything | nc " \o Join(" ", Split(c["address"], ":")) \o ") 2>/dev/null"

Operational ==
  /\ st \in {"Configured", "Deployed"}
  /\ \E r \in WaitStatuses :
       outcome' = [call |-> "operational", raised |-> None,
                   ret |-> IF r = 0 THEN "True" ELSE "False",
                   cmd |-> ProbeCmd(conf), status |-> r]
  /\ UNCHANGED <<arg_conf, arg_kafka_path, apps, st, conf, ports, allocated, env,
                 files, dirs, log, principals>>

\* The install directory.
DestDir(c) == PathJoin(PathJoin(MkPath("KafkaBrokerApp"), "kafka"), c["version"])

\* The deploy script's command line.
DeployCmd(c) ==
  ResourcePath("deploy.sh") \o " " \o c["version"] \o " \"" \o PyStr(c["kafka_path"])
  \o "\" \"" \o DestDir(c) \o "\""

\* Mutant: the new start command is built on the old one.
DeployedStartCmdOnOld(c) == DestDir(c) \o "/bin/kafka-server-start.sh " \o c["start_cmd"]

\* The start command deploy() writes.
DeployedStartCmd(c) == DestDir(c) \o "/bin/kafka-server-start.sh " \o c["conf_file"]

\* What the host may answer a deploy(): deploy.sh is missing, or it runs and
\* os.system() returns a wait status (0 stands for no run).
DeployAnswers ==
  {[exists |-> FALSE, status |-> 0]}
  \cup {[exists |-> TRUE, status |-> r] : r \in WaitStatuses}

\* The exception deploy() raises, None when it returns.
DeployRaises(o) ==
  IF ~o.exists THEN "NotImplementedError"
  ELSE IF o.status # 0 THEN "Exception"
  ELSE None

\* Mutant: start_cmd is overwritten before the script is looked for and run.
DeployConfEager(c, o) == [c EXCEPT !["start_cmd"] = DeployedStartCmd(c)]

\* Mutant: a successful deploy() also points kafka_path at the install directory.
DeployConfKafkaPath(c, o) ==
  IF DeployRaises(o) = None
  THEN [c EXCEPT !["start_cmd"] = DeployedStartCmd(c), !["kafka_path"] = DestDir(c)]
  ELSE c

\* self.conf when deploy() is left, by return or by exception.
DeployConf(c, o) ==
  IF DeployRaises(o) = None THEN [c EXCEPT !["start_cmd"] = DeployedStartCmd(c)]
  ELSE c

Deploy ==
  /\ st \in {"Configured", "Deployed"}
  /\ \E o \in DeployAnswers :
       /\ conf' = DeployConf(conf, o)
       /\ st' = IF DeployRaises(o) = None THEN "Deployed" ELSE st
       /\ outcome' = [call |-> "deploy", raised |-> DeployRaises(o), ret |-> None,
                      cmd |-> IF o.exists THEN DeployCmd(conf) ELSE None,
                      status |-> o.status]
  /\ UNCHANGED <<arg_conf, arg_kafka_path, apps, ports, allocated, env, files, dirs,
                 log, principals>>

(* ------------------------------ inputs -------------------------------- *)

\* The sequences over S of length lo to hi.
SeqsOf(S, lo, hi) == UNION {[1..n -> S] : n \in lo..hi}

\* The CSVs of lo to hi fields drawn from S.
CsvsOf(S, lo, hi) == {Join(",", fs) : fs \in SeqsOf(S, lo, hi)}

\* A conf dict with the given options; an option given as None is left out.
MkConf(version, listeners, sasl_mechanisms, sasl_users) ==
  LET r == [version |-> version, listeners |-> listeners,
            sasl_mechanisms |-> sasl_mechanisms, sasl_users |-> sasl_users]
  IN  [k \in {x \in DOMAIN r : r[x] # None} |-> r[k]]

ListenerNames == {"PLAINTEXT", "SSL", "SASL_PLAINTEXT"}
ListenerCsvs == {None} \cup CsvsOf(ListenerNames, 1, MaxFields)

MechNames == {"PLAIN", "GSSAPI", " "}
MechCsvs == {None, "GSSAPI, PLAIN"} \cup CsvsOf(MechNames, 1, MaxMechs)

UserFields == {"alice=secret", "bob=pw", "eve"}
UserCsvs == {None, "a=b=c"} \cup CsvsOf(UserFields, 0, MaxUsers)

AllApps == {"ZookeeperApp", "KerberosKdcApp"}

\* Every listeners CSV, with and without SASL.
ListenerInputs ==
  {[conf |-> MkConf("0.9.0.1", l, m, None), kafka_path |-> None, apps |-> AllApps] :
     l \in ListenerCsvs, m \in {None, "PLAIN", " , "}}

\* Every sasl_mechanisms CSV, with and without a KerberosKdcApp.
MechInputs ==
  {[conf |-> MkConf("0.9.0.1", l, m, u), kafka_path |-> None, apps |-> a] :
     l \in {None}, m \in MechCsvs, u \in {None, "alice=secret,bob=pw"},
     a \in {AllApps, {"ZookeeperApp"}}}

\* Every sasl_users CSV.
UserInputs ==
  {[conf |-> MkConf("0.9.0.1", None, m, u), kafka_path |-> None, apps |-> a] :
     m \in {"PLAIN", "PLAIN,GSSAPI", "GSSAPI,PLAIN"}, u \in UserCsvs,
     a \in {AllApps, {"ZookeeperApp"}}}

\* Versions, build trees, cluster registries and a num_partitions of the caller.
DeployInputs ==
  {[conf |-> IF parts = 0 THEN MkConf(v, None, m, None)
             ELSE Put(MkConf(v, None, m, None), "num_partitions", parts),
    kafka_path |-> k, apps |-> a] :
     v \in {None, "master", "trunk", "0.9.0.1"}, m \in {None, "GSSAPI"},
     k \in {None, "", "/src/kafka", "/src/kafka/"}, a \in SUBSET AllApps,
     parts \in {0, 6}}

Inputs == ListenerInputs \cup MechInputs \cup UserInputs \cup DeployInputs

Init ==
  /\ \E in \in Inputs :
       /\ arg_conf = in.conf
       /\ arg_kafka_path = in.kafka_path
       /\ apps = in.apps
  /\ st = "Unconfigured"
  /\ conf = EmptyDict
  /\ ports = <<>>
  /\ allocated = <<>>
  /\ env = <<>>
  /\ files = EmptyDict
  /\ dirs = {}
  /\ log = <<>>
  /\ principals = {}
  /\ outcome = [call |-> None, raised |-> None, ret |-> None, cmd |-> None,
                status |-> 0]

Next == Construct \/ Operational \/ Deploy

Spec == Init /\ [][Next]_vars

(* ------------------- reading the inputs and outputs ------------------- *)

Ch(s, i) == SubSeq(s, i, i)

\* Where the fields of s end: before its first character, at each sep, and
\* after its last character.
Cuts(s, sep) == {0, Len(s) + 1} \cup {i \in 1..Len(s) : Ch(s, i) = sep}

\* The fields of a CSV, in order: the k-th lies between the k-th cut and the next.
Fields(s, sep) ==
  LET cuts == Cuts(s, sep)
  IN  [k \in 1..(Cardinality(cuts) - 1) |->
         LET a == CHOOSE c \in cuts : Cardinality({d \in cuts : d < c}) = k - 1
             b == CHOOSE c \in cuts : Cardinality({d \in cuts : d < c}) = k
         IN  SubSeq(s, a + 1, b - 1)]

\* The listener names the caller wrote.
ArgListeners ==
  IF "listeners" \in DOMAIN arg_conf
  THEN ToSet(Fields(arg_conf["listeners"], ","))
  ELSE {"PLAINTEXT"}

ArgMechs == Get(arg_conf, "sasl_mechanisms", "")
ArgUsers == Get(arg_conf, "sasl_users", "")

\* At least one non-empty SASL mechanism was requested.
MechRequested == \E i \in 1..Len(ArgMechs) : Ch(ArgMechs, i) \notin {",", " "}

\* Mechanism m is among those requested.
Requested(m) ==
  LET fs == Fields(ArgMechs, ",")
  IN  \E k \in 1..Len(fs) : Remove(fs[k], " ") = m

\* The first position of sub in s, 0 when it does not occur.
FirstPos(s, sub) ==
  LET at == {i \in 1..(Len(s) - Len(sub) + 1) : SubSeq(s, i, i + Len(sub) - 1) = sub}
  IN  IF at = {} THEN 0 ELSE CHOOSE i \in at : \A j \in at : i <= j

ExpectedNames ==
  ArgListeners \cup (IF MechRequested THEN {"SASL_PLAINTEXT"} ELSE {})

Constructed == st \in {"Configured", "Deployed"}

\* __init__ has run and got past the dependency and version lookups.
BoundPorts ==
  st # "Unconfigured" /\ "ZookeeperApp" \in apps /\ "version" \in DOMAIN arg_conf

\* The lines of the JAAS file written.
JaasLines == Split(files["jaas_broker.conf"].data, "\n")

IsUserLine(l) == Len(l) >= 5 /\ SubSeq(l, 1, 5) = "user_"

PlainHeader ==
  "org.apache.kafka.common.security.plain.PlainLoginModule required debug=true"
KrbHeader == "com.sun.security.auth.module.Krb5LoginModule required"

\* The positions of line l among lines.
LinesAt(lines, l) == {i \in 1..Len(lines) : lines[i] = l}

(* ------------------------------ claims -------------------------------- *)

\* C1: the listener names that construction binds ports to are, in order, the
\* lexicographically sorted, duplicate-free union of the requested names
\* ({PLAINTEXT} when 'listeners' is absent) and {SASL_PLAINTEXT}, the latter
\* added exactly when at least one non-empty SASL mechanism was requested.
C1_ListenerSet ==
  BoundPorts =>
    /\ {ports[i][1] : i \in 1..Len(ports)} = ExpectedNames
    /\ \A i \in 1..(Len(ports) - 1) : StrLess(ports[i][1], ports[i + 1][1])

C1_Witness ==
  /\ Constructed
  /\ Get(arg_conf, "listeners", "") = "SSL,PLAINTEXT"
  /\ ArgMechs = "PLAIN"
  /\ [i \in 1..Len(ports) |-> ports[i][1]] = <<"PLAINTEXT", "SASL_PLAINTEXT", "SSL">>

\* C2: after construction one port per distinct listener has been taken from the
\* allocator, the i-th port taken being bound to the i-th listener in sorted
\* order; conf['port'], which conf['address'] publishes, is the port of the
\* lexicographically first listener; listeners="SSL,PLAINTEXT" without SASL
\* takes 2 ports and the default port is PLAINTEXT's.
C2_PortsAndDefault ==
  Constructed =>
    /\ Len(allocated) = Cardinality(ExpectedNames)
    /\ Len(ports) = Len(allocated)
    /\ \A i \in 1..Len(ports) : ports[i][2] = allocated[i]
    /\ \A i \in 1..(Len(ports) - 1) : StrLess(ports[i][1], ports[i + 1][1])
    /\ \A i \in 1..Len(ports) :
         (\A j \in 1..Len(ports) : j # i => StrLess(ports[i][1], ports[j][1]))
           => conf["port"] = ports[i][2]
    /\ conf["address"] = NodeName \o ":" \o IntToStr(conf["port"])
    /\ (Get(arg_conf, "listeners", "") = "SSL,PLAINTEXT" /\ ~MechRequested)
         => /\ Len(allocated) = 2
            /\ <<"PLAINTEXT", conf["port"]>> \in ToSet(ports)

C2_Witness ==
  /\ Constructed
  /\ Get(arg_conf, "listeners", "") = "SSL,PLAINTEXT"
  /\ ~MechRequested
  /\ allocated = <<9093, 9092>>
  /\ conf["port"] = 9093

\* The case of C3: PLAIN alone is requested, with no users, and nothing else
\* stops the constructor (the ZookeeperApp and a version are there).
C3_Case ==
  /\ st # "Unconfigured"
  /\ "ZookeeperApp" \in apps
  /\ "version" \in DOMAIN arg_conf
  /\ ArgMechs = "PLAIN"
  /\ ArgUsers = ""

\* C3 as claimed: with sasl_mechanisms PLAIN and no sasl_users, construction
\* succeeds, a warning is logged, and no JAAS file is created.
C3_Original ==
  C3_Case =>
    /\ Constructed
    /\ NoUsersWarning \in ToSet(log)
    /\ "jaas_broker.conf" \notin DOMAIN files
    /\ "jaas_file" \notin DOMAIN conf

\* C3 as amended: with sasl_mechanisms PLAIN and no sasl_users, construction
\* succeeds, a warning is logged, and the JAAS file is still written and
\* conf['jaas_file'] set; the file holds the empty 'KafkaServer {' ... '};'
\* block, with no PLAIN login module and no user line.
C3_EmptyJaasBlock ==
  C3_Case =>
    /\ Constructed
    /\ NoUsersWarning \in ToSet(log)
    /\ "jaas_broker.conf" \in DOMAIN files
    /\ files["jaas_broker.conf"].data = "KafkaServer {\n};\n"
    /\ conf["jaas_file"] = AppPath("jaas_broker.conf")

C3_Witness ==
  /\ C3_Case
  /\ st = "Configured"
  /\ "sasl_users" \notin DOMAIN arg_conf
  /\ log = <<NoUsersWarning>>

\* C4: with GSSAPI among the requested mechanisms and no KerberosKdcApp in the
\* cluster, the constructor raises, and neither a start_cmd nor a JAAS file nor
\* a service config file is produced.
C4_GssapiNeedsKdc ==
  (st # "Unconfigured" /\ Requested("GSSAPI") /\ "KerberosKdcApp" \notin apps) =>
    /\ st = "Failed"
    /\ outcome.call = "__init__"
    /\ outcome.raised # None
    /\ "start_cmd" \notin DOMAIN conf
    /\ "jaas_file" \notin DOMAIN conf
    /\ "conf_file" \notin DOMAIN conf
    /\ "jaas_broker.conf" \notin DOMAIN files
    /\ "server.properties" \notin DOMAIN files

C4_Witness ==
  /\ st = "Failed"
  /\ Requested("GSSAPI")
  /\ apps = {"ZookeeperApp"}
  /\ outcome.raised = "AttributeError"
  /\ Len(allocated) > 0

\* C5: a deploy() whose deploy script is missing, or whose fetch/build command
\* exits non-zero, raises and leaves start_cmd and every other configuration
\* field as it was before the call.
C5_FailedDeployKeepsConf ==
  [][(Constructed /\ outcome'.call = "deploy"
        /\ (outcome'.cmd = None \/ outcome'.status # 0))
       => (outcome'.raised # None /\ conf' = conf /\ st' = st)]_vars

C5_Witness ==
  /\ st = "Deployed"
  /\ outcome.call = "deploy"
  /\ outcome.raised = "Exception"
  /\ outcome.status = 256

\* C6: with no ZookeeperApp in the cluster, the constructor raises before it
\* allocates a port, issues a credential, adds a launcher environment variable
\* or creates a file or directory.
C6_ZookeeperRequired ==
  (st # "Unconfigured" /\ "ZookeeperApp" \notin apps) =>
    /\ st = "Failed"
    /\ outcome.raised = "Exception"
    /\ allocated = <<>>
    /\ ports = <<>>
    /\ principals = {}
    /\ env = <<>>
    /\ DOMAIN files = {}
    /\ dirs = {}

C6_Witness ==
  /\ st = "Failed"
  /\ apps = {"KerberosKdcApp"}
  /\ Requested("GSSAPI")
  /\ "version" \in DOMAIN arg_conf

\* The user=pass pairs the sasl_users CSVs are made of.
UserPairs == {<<"alice", "secret">>, <<"bob", "pw">>}
PairCsv(ps) == Join(",", [i \in 1..Len(ps) |-> ps[i][1] \o "=" \o ps[i][2]])

\* C7: when PLAIN is requested with a non-empty sasl_users CSV of n user=pass
\* pairs, the login block holds exactly n lines of the form user_<name>="<pass>",
\* in the order of the pairs, and only the last of them ends with ';'.
C7_UserLines ==
  (Constructed /\ Requested("PLAIN") /\ Len(ArgUsers) > 0) =>
    /\ \E ps \in SeqsOf(UserPairs, 1, MaxUsers) : ArgUsers = PairCsv(ps)
    /\ \A ps \in SeqsOf(UserPairs, 1, MaxUsers) :
         ArgUsers = PairCsv(ps) =>
           LET ul == SelectSeq(JaasLines, IsUserLine)
           IN  /\ Len(ul) = Len(ps)
               /\ \A i \in 1..Len(ps) :
                    ul[i] = "user_" \o ps[i][1] \o "=\"" \o ps[i][2] \o "\""
                            \o (IF i = Len(ps) THEN ";" ELSE "")

C7_Witness ==
  /\ Constructed
  /\ ArgMechs = "PLAIN"
  /\ ArgUsers = "alice=secret,bob=pw"
  /\ SelectSeq(JaasLines, IsUserLine)
       = <<"user_alice=\"secret\"", "user_bob=\"pw\";">>

\* C8: once construction has completed, deploy() and operational() calls leave
\* every configuration field but start_cmd (and conf_file) as it is, add and
\* remove none, and a step that changes the configuration is a deploy():
\* operational() changes no field.
C8_ConfFrame ==
  [][Constructed =>
       /\ DOMAIN conf' = DOMAIN conf
       /\ \A k \in DOMAIN conf \ {"start_cmd", "conf_file"} : conf'[k] = conf[k]
       /\ (conf' # conf => outcome'.call = "deploy")]_vars

C8_Witness ==
  /\ st = "Deployed"
  /\ outcome.call = "operational"
  /\ conf["start_cmd"] # StartCmd(arg_kafka_path, conf["conf_file"])

\* The case of C9: PLAIN with users and GSSAPI are both requested, and
\* construction has completed.
C9_Case ==
  /\ Constructed
  /\ Requested("PLAIN")
  /\ Requested("GSSAPI")
  /\ Len(ArgUsers) > 0

\* Both stanzas lie inside one 'KafkaServer {' ... '};' block.
C9_OneBlock(lines) ==
  /\ LinesAt(lines, "KafkaServer {") = {1}
  /\ Cardinality(LinesAt(lines, "};")) = 1
  /\ Cardinality(LinesAt(lines, PlainHeader)) = 1
  /\ Cardinality(LinesAt(lines, KrbHeader)) = 1
  /\ \A i \in LinesAt(lines, PlainHeader) \cup LinesAt(lines, KrbHeader) :
       \A j \in LinesAt(lines, "};") : 1 < i /\ i < j

\* C9 as claimed: the two stanzas are in one block and in the order in which
\* the mechanisms were listed in sasl_mechanisms.
C9_Original ==
  C9_Case =>
    LET lines == JaasLines
    IN  /\ C9_OneBlock(lines)
        /\ \A i \in LinesAt(lines, PlainHeader), j \in LinesAt(lines, KrbHeader) :
             (i < j) <=> (FirstPos(ArgMechs, "PLAIN") < FirstPos(ArgMechs, "GSSAPI"))

\* C9 as amended: the two stanzas are in one block, and the PLAIN stanza with
\* its user lines always comes before the Kerberos stanza, whatever the order
\* in which sasl_mechanisms lists them.
C9_PlainFirst ==
  C9_Case =>
    LET lines == JaasLines
    IN  /\ C9_OneBlock(lines)
        /\ \A i \in LinesAt(lines, PlainHeader), j \in LinesAt(lines, KrbHeader) :
             /\ i < j
             /\ \A k \in 1..Len(lines) : IsUserLine(lines[k]) => (i < k /\ k < j)

C9_Witness ==
  /\ C9_Case
  /\ ArgMechs = "GSSAPI,PLAIN"
  /\ LinesAt(JaasLines, PlainHeader) = {2}
  /\ LinesAt(JaasLines, KrbHeader) = {5}

\* The start command construction leaves: the system-installed script, or the
\* one under kafka_path, and the config file.
ExpectedInitialCmd ==
  (CASE arg_kafka_path = None -> "kafka-server-start.sh"
     [] arg_kafka_path = "" -> "kafka-server-start.sh"
     [] arg_kafka_path = "/src/kafka" -> "/src/kafka/bin/kafka-server-start.sh"
     [] arg_kafka_path = "/src/kafka/" -> "/src/kafka/bin/kafka-server-start.sh")
  \o " /cluster/KafkaBrokerApp/1/server.properties"

\* The start command of the deployed install directory.
ExpectedDeployedCmd ==
  "/cluster/KafkaBrokerApp/kafka/"
  \o (IF arg_conf["version"] = "master" THEN "trunk" ELSE arg_conf["version"])
  \o "/bin/kafka-server-start.sh /cluster/KafkaBrokerApp/1/server.properties"

\* C10: on a constructed app, after any deploy() calls, start_cmd is the
\* construction-time command while no deploy() has succeeded and the command
\* of the deployed install directory afterwards, also after further successful
\* deploy() calls; stop_cmd stays null throughout.
C10_StartCmd ==
  /\ st = "Configured" => conf["start_cmd"] = ExpectedInitialCmd
  /\ st = "Deployed" => conf["start_cmd"] = ExpectedDeployedCmd
  /\ Constructed => conf["stop_cmd"] = None

C10_Witness ==
  /\ st = "Deployed"
  /\ arg_kafka_path = "/src/kafka/"
  /\ arg_conf["version"] = "master"
  /\ outcome.call = "deploy"
  /\ outcome.raised = "NotImplementedError"

====
